---- MODULE Spec2Model ----
(***************************************************************************)
(* Model of the sequence indexer of Source/Readers/ReaderLib/Indexer.cpp.  *)
(*                                                                         *)
(* An Indexer object scans one file through a fixed-size buffer and hands  *)
(* one SequenceDescriptor per discovered sequence to its index (the sink), *)
(* after asking the corpus filter.  Every Indexer is a record: the fields  *)
(* named m_... are the members of the class, the other fields are the      *)
(* FILE position, the locals of the running Build call and its position    *)
(* (pc), and history fields that record what the call did.  Bytes are      *)
(* integers 0..255, strings are sequences of bytes, pointers into m_buffer *)
(* are 0-based indices and nullptr is NULL.                                *)
(***************************************************************************)
EXTENDS Integers, Sequences, FiniteSets

VARIABLES indexer, registry, registry0, excluded

vars == <<indexer, registry, registry0, excluded>>

----------------------------------------------------------------------------
(* Bounds of the model.                                                    *)

MaxBody == 3

MaxBuf == 4

MaxCalls == 2

MaxLines == 3
MaxFailAt == 2

----------------------------------------------------------------------------
(* Bytes and character classes.                                            *)

ROW_DELIMITER == 10

NULL == -1

BOM == <<239, 187, 191>>

Alphabet == {49, 50, 32, 10, 124}

IsDigit(c) == c \in 48..57

IsSpace(c) == c \in {9, 10, 11, 12, 13, 32}

Min(S) == CHOOSE x \in S : \A y \in S : x <= y

(* size_t, 64 bits wide: a value is held as four limbs of 16 bits, the
   lowest first, so that the arithmetic of line 227 is modulo 2^64 *)
LimbBase == 65536

(* the size_t of a small number n *)
SizeT(n) == <<n % LimbBase, (n \div LimbBase) % LimbBase, 0, 0>>

(* the small number of a size_t that has one *)
SizeFits(x) == x[3] = 0 /\ x[4] = 0 /\ x[2] < 32768

SizeValue(x) == x[1] + LimbBase * x[2]

(* id * 10 + (c - '0') in size_t: the carry out of the highest limb is lost *)
TimesTenPlus(x, d) ==
    LET a1 == x[1] * 10 + d
        a2 == x[2] * 10 + a1 \div LimbBase
        a3 == x[3] * 10 + a2 \div LimbBase
        a4 == x[4] * 10 + a3 \div LimbBase
    IN  <<a1 % LimbBase, a2 % LimbBase, a3 % LimbBase, a4 % LimbBase>>

(* the quotient and the remainder of a size_t by ten *)
DivTen(x) ==
    LET c4 == x[4]
        c3 == (c4 % 10) * LimbBase + x[3]
        c2 == (c3 % 10) * LimbBase + x[2]
        c1 == (c2 % 10) * LimbBase + x[1]
    IN  [quot |-> <<c1 \div 10, c2 \div 10, c3 \div 10, c4 \div 10>>, rem |-> c1 % 10]

RECURSIVE SeqsUpTo(_)
SeqsUpTo(n) ==
    IF n = 0 THEN {<<>>}
    ELSE LET shorter == SeqsUpTo(n - 1)
         IN  shorter \cup {Append(q, c) : q \in {r \in shorter : Len(r) = n - 1}, c \in Alphabet}

(* "1 x\n1 y\n2 z\n" and "a\nbb\nccc" *)
ExampleKeyed == <<49, 32, 120, 10, 49, 32, 121, 10, 50, 32, 122, 10>>

(* "18446744073709551617 \n1 \n": the first key is 2^64 + 1 *)
ExampleWrap ==
    <<49, 56, 52, 52, 54, 55, 52, 52, 48, 55, 51, 55, 48, 57, 53, 53, 49, 54, 49, 55,
      32, 10, 49, 32, 10>>

ExampleLines == <<97, 10, 98, 98, 10, 99, 99, 99>>

(* lines with the key 1, with the key 2 and without a key *)
Lines == {<<49, 10>>, <<50, 10>>, <<32, 10>>}

RECURSIVE LinesUpTo(_)
LinesUpTo(n) ==
    IF n = 0 THEN {<<>>}
    ELSE LET fewer == LinesUpTo(n - 1)
         IN  fewer \cup {q \o l : q \in fewer, l \in Lines}

Files ==
    LET bodies == SeqsUpTo(MaxBody)
    IN  bodies \cup {BOM \o b : b \in bodies} \cup LinesUpTo(MaxLines)
            \cup {ExampleKeyed, ExampleLines, ExampleWrap}

StreamPrefixes == {124}

Filters == {{}, {<<49>>}, {<<50>>}}

Registries == {<<>>, <<(<<50>>)>>}

----------------------------------------------------------------------------
(* The string registry (StringToIdMap) and the corpus filter.              *)
(* The registry is the list of registered strings; the id of a string is   *)
(* its 0-based place in the list.                                          *)

Places(reg, key) == {i \in 1..Len(reg) : reg[i] = key}

Contains(reg, key) == Places(reg, key) # {}

(* mapping.TryGet(key, id): the id found, when Contains(reg, key) *)
TryGetId(reg, key) == Min(Places(reg, key)) - 1

(* mapping.AddValue(key): appends, the new id is the previous size *)
AddValue(reg, key) == [reg |-> Append(reg, key), id |-> Len(reg)]

(* stringRegistry[key]: the id of key, registering it when unseen *)
IdOf(reg, key) ==
    IF Contains(reg, key) THEN [reg |-> reg, id |-> TryGetId(reg, key)]
    ELSE AddValue(reg, key)

(* stringRegistry[id], id a size_t: defined for the ids the registry assigned *)
Known(reg, id) == SizeFits(id) /\ SizeValue(id) \in 0..(Len(reg) - 1)

StringOf(reg, id) == reg[SizeValue(id) + 1]

IsIncluded(excl, key) == key \notin excl

(* std::to_string of a size_t *)
RECURSIVE to_string(_)
to_string(n) ==
    LET d == DivTen(n)
    IN  IF d.quot = SizeT(0) THEN <<48 + d.rem>>
        ELSE Append(to_string(d.quot), 48 + d.rem)

----------------------------------------------------------------------------
(* The Indexer object.                                                     *)

ZeroSd ==
    [m_fileOffsetBytes |-> 0, m_byteSize |-> 0, m_numberOfSamples |-> 0,
     m_key |-> [m_sequence |-> 0, m_sample |-> 0]]

(* the FILE* of an Indexer whose file is not open: nullptr *)
NoFile == <<NULL>>

(* Indexer::Indexer: the members after the initializer list, and the test of
   lines 32-35, which throws when the file is not open: no Indexer exists
   then, and no Build can be called *)
NewIndexer(file, bufferSize, skipSequenceIds, numericSequenceId, streamPrefix) ==
    LET s ==
        [file |-> file,
         filePos |-> 0,
         failAt |-> 0,
         failDelivers |-> 0,
         readFailed |-> FALSE,
         fileEof |-> FALSE,
         skipSequenceIds |-> skipSequenceIds,
         m_streamPrefix |-> streamPrefix,
         m_numericSequenceId |-> numericSequenceId,
         m_bufferSize |-> bufferSize,
         m_fileOffsetStart |-> 0,
         m_fileOffsetEnd |-> 0,
         m_buffer |-> <<>>,
         m_bufferStart |-> NULL,
         m_bufferEnd |-> NULL,
         m_pos |-> NULL,
         m_done |-> FALSE,
         m_hasSequenceIds |-> ~skipSequenceIds,
         m_index |-> <<>>,
         (* locals of Build, BuildFromLines, TryGetSequenceId *)
         pc |-> "idle",
         rpc |-> "idle",
         ret |-> "idle",
         aret |-> "idle",
         id |-> SizeT(0),
         offset |-> 0,
         lines |-> 0,
         sd |-> ZeroSd,
         currentKey |-> SizeT(0),
         sequenceId |-> SizeT(0),
         found |-> FALSE,
         key |-> <<>>,
         result |-> FALSE,
         (* history of the calls *)
         calls |-> 0,
         outcome |-> "none",
         reserveCalls |-> 0,
         freadCalls |-> 0,
         previous |-> "none",
         freadCallsAtEntry |-> 0,
         addCalls |-> 0,
         addCallsAtEntry |-> 0,
         scanStart |-> NULL,
         policy |-> "none",
         computed |-> <<>>]
    IN  IF file = NoFile
        THEN [s EXCEPT !.file = <<>>, !.pc = "NoIndexer",
                       !.outcome = "Input file not open for reading"]
        ELSE s

(* GetFileOffset() with a valid m_pos *)
GetFileOffset(s) == s.m_fileOffsetStart + (s.m_pos - s.m_bufferStart)

(* what GetFileOffset() may yield when m_pos is nullptr *)
WildOffsets == {-1000, 1000}

(* *p for a pointer p into m_buffer *)
At(s, p) == s.m_buffer[p + 1]

(* memchr(m_pos, ROW_DELIMITER, m_bufferEnd - m_pos) *)
MemChr(s) ==
    LET hits == {p \in s.m_pos..(s.m_bufferEnd - 1) : At(s, p) = ROW_DELIMITER}
    IN  IF hits = {} THEN NULL ELSE Min(hits)

(* (size_t)-1, the value RefillBuffer compares the count of fread with; no
   count of fread equals it, since a count is at most m_bufferSize *)
SizeMinusOne == -1

(* the count of the next fread: from the failAt-th call on (0: never) the
   device fails; that call still delivers failDelivers bytes at most, the
   calls after it none *)
FReadCount(s) ==
    LET avail == IF Len(s.file) - s.filePos < s.m_bufferSize
                 THEN Len(s.file) - s.filePos ELSE s.m_bufferSize
    IN  IF s.fileEof THEN 0
        ELSE IF s.failAt = 0 \/ s.freadCalls + 1 < s.failAt THEN avail
        ELSE IF s.freadCalls + 1 > s.failAt THEN 0
        ELSE IF s.failDelivers < avail THEN s.failDelivers ELSE avail

(* the next fread returns with the error indicator of the stream set: a
   call that delivers the full count m_bufferSize has succeeded, and the
   error is met by the call after it; a stream whose end-of-file indicator
   is set (fileEof) returns 0 without a read of the device, so it meets no
   error *)
ReadFails(s) ==
    /\ ~s.fileEof
    /\ s.failAt # 0
    /\ s.freadCalls + 1 >= s.failAt
    /\ FReadCount(s) < s.m_bufferSize

(* fread(m_buffer.get(), 1, m_bufferSize, m_file): the count of the bytes
   read, short of m_bufferSize at end-of-file or on an error *)
FRead(s) ==
    LET n == FReadCount(s)
    IN  [bytesRead |-> n, bytes |-> SubSeq(s.file, s.filePos + 1, s.filePos + n),
         failed |-> ReadFails(s),
         eof |-> ~ReadFails(s) /\ n < s.m_bufferSize]

Fatal(s, msg) == [s EXCEPT !.pc = "idle", !.outcome = msg]

Return(s) == [s EXCEPT !.pc = "idle", !.outcome = "returned"]

----------------------------------------------------------------------------
(* The steps of the code, as functions of the Indexer s (and the registry). *)

(* a bug: a refill leaves the start offset of the window where it was *)
RefillBuffer_KeepsStart(s) ==
    LET r == FRead(s)
        t == IF s.m_done THEN s
             ELSE IF r.bytesRead = 0
             THEN [s EXCEPT !.m_done = TRUE, !.freadCalls = @ + 1,
                            !.readFailed = @ \/ r.failed, !.fileEof = @ \/ r.eof]
             ELSE [s EXCEPT !.filePos = @ + r.bytesRead,
                            !.freadCalls = @ + 1,
                            !.readFailed = @ \/ r.failed, !.fileEof = @ \/ r.eof,
                            !.m_buffer = r.bytes,
                            !.m_fileOffsetEnd = @ + r.bytesRead,
                            !.m_bufferStart = 0,
                            !.m_pos = 0,
                            !.m_bufferEnd = r.bytesRead]
    IN  IF ~s.m_done /\ r.bytesRead = SizeMinusOne
        THEN Fatal([s EXCEPT !.freadCalls = @ + 1,
                             !.readFailed = @ \/ r.failed, !.fileEof = @ \/ r.eof],
                   "Could not read from the input file.")
        ELSE [t EXCEPT !.pc = s.rpc]

(* a bug: a read of 0 bytes does not set the exhausted flag *)
RefillBuffer_NeverExhausted(s) ==
    LET r == FRead(s)
        t == IF s.m_done THEN s
             ELSE IF r.bytesRead = 0
             THEN s
             ELSE [s EXCEPT !.filePos = @ + r.bytesRead,
                            !.freadCalls = @ + 1,
                            !.readFailed = @ \/ r.failed, !.fileEof = @ \/ r.eof,
                            !.m_buffer = r.bytes,
                            !.m_fileOffsetStart = s.m_fileOffsetEnd,
                            !.m_fileOffsetEnd = @ + r.bytesRead,
                            !.m_bufferStart = 0,
                            !.m_pos = 0,
                            !.m_bufferEnd = r.bytesRead]
    IN  IF ~s.m_done /\ r.bytesRead = SizeMinusOne
        THEN Fatal([s EXCEPT !.freadCalls = @ + 1,
                             !.readFailed = @ \/ r.failed, !.fileEof = @ \/ r.eof],
                   "Could not read from the input file.")
        ELSE [t EXCEPT !.pc = s.rpc]

(* Indexer::RefillBuffer, then back to the caller *)
RefillBuffer(s) ==
    LET r == FRead(s)
        t == IF s.m_done THEN s
             ELSE IF r.bytesRead = 0
             THEN [s EXCEPT !.m_done = TRUE, !.freadCalls = @ + 1,
                            !.readFailed = @ \/ r.failed, !.fileEof = @ \/ r.eof]
             ELSE [s EXCEPT !.filePos = @ + r.bytesRead,
                            !.freadCalls = @ + 1,
                            !.readFailed = @ \/ r.failed, !.fileEof = @ \/ r.eof,
                            !.m_buffer = r.bytes,
                            !.m_fileOffsetStart = s.m_fileOffsetEnd,
                            !.m_fileOffsetEnd = @ + r.bytesRead,
                            !.m_bufferStart = 0,
                            !.m_pos = 0,
                            !.m_bufferEnd = r.bytesRead]
    IN  IF ~s.m_done /\ r.bytesRead = SizeMinusOne
        THEN Fatal([s EXCEPT !.freadCalls = @ + 1,
                             !.readFailed = @ \/ r.failed, !.fileEof = @ \/ r.eof],
                   "Could not read from the input file.")
        ELSE [t EXCEPT !.pc = s.rpc]

CallRefillBuffer(s, back) == [s EXCEPT !.pc = "RefillBuffer", !.rpc = back]

CallTryGetSequenceId(s, back) ==
    [s EXCEPT !.pc = "TryGetSequenceId", !.ret = back,
              !.found = FALSE, !.id = SizeT(0), !.key = <<>>,
              !.addCallsAtEntry = s.addCalls]

CallAddSequenceIfIncluded(s, sequenceId, sd, back) ==
    [s EXCEPT !.pc = "AddSequenceIfIncluded", !.aret = back,
              !.sequenceId = sequenceId, !.sd = sd]

(* a bug: Build scans again although the index holds sequences *)
BuildEnter_ScansAgain(s) ==
    CallRefillBuffer(
        [s EXCEPT !.calls = @ + 1, !.outcome = "running",
                  !.previous = s.outcome, !.freadCallsAtEntry = s.freadCalls,
                  !.reserveCalls = @ + 1, !.computed = <<>>,
                  !.policy = "none", !.scanStart = NULL],
        "BuildFirstBlock")

(* Indexer::Build, lines 98-107: the emptiness short-circuit and Reserve *)
BuildEnter(s) ==
    IF s.m_index # <<>>
    THEN [s EXCEPT !.calls = @ + 1, !.outcome = "noop"]
    ELSE CallRefillBuffer(
             [s EXCEPT !.calls = @ + 1, !.outcome = "running",
                       !.previous = s.outcome, !.freadCallsAtEntry = s.freadCalls,
                       !.reserveCalls = @ + 1, !.computed = <<>>,
                       !.policy = "none", !.scanStart = NULL],
             "BuildFirstBlock")

(* Indexer::Build, lines 113-114: the test for the UTF-8 BOM *)
HasBOM(s) ==
    /\ s.m_bufferEnd - s.m_bufferStart > 3
    /\ At(s, s.m_bufferStart) = 239
    /\ At(s, s.m_bufferStart + 1) = 187
    /\ At(s, s.m_bufferStart + 2) = 191

(* Indexer::Build, lines 116-119 *)
SkipBOM(s) ==
    IF HasBOM(s)
    THEN [s EXCEPT !.m_pos = @ + 3, !.m_fileOffsetStart = @ + 3, !.m_bufferStart = @ + 3]
    ELSE s

(* Indexer::Build, line 123: the choice of the policy *)
UseLines(s) == ~s.m_hasSequenceIds \/ At(s, s.m_bufferStart) = s.m_streamPrefix

(* a bug: Build returns from an exhausted file without an error *)
BuildFirstBlock_ReturnsWhenDone(s) ==
    IF s.m_done THEN Return(s)
    ELSE LET t == SkipBOM(s)
             o == GetFileOffset(t)
         IN  IF UseLines(t)
             THEN [t EXCEPT !.pc = "BuildFromLines", !.policy = "lines",
                            !.scanStart = o, !.m_hasSequenceIds = FALSE,
                            !.lines = 0, !.offset = o]
             ELSE CallTryGetSequenceId(
                      [t EXCEPT !.policy = "keys", !.scanStart = o, !.offset = o],
                      "BuildFirstId")

(* Indexer::Build, lines 108-133, with the head of BuildFromLines (62-65) *)
BuildFirstBlock(s) ==
    IF s.m_done THEN Fatal(s, "Input file is empty")
    ELSE LET t == SkipBOM(s)
             o == GetFileOffset(t)
         IN  IF UseLines(t)
             THEN [t EXCEPT !.pc = "BuildFromLines", !.policy = "lines",
                            !.scanStart = o, !.m_hasSequenceIds = FALSE,
                            !.lines = 0, !.offset = o]
             ELSE CallTryGetSequenceId(
                      [t EXCEPT !.policy = "keys", !.scanStart = o, !.offset = o],
                      "BuildFirstId")

(* Indexer::BuildFromLines, lines 71-75: the descriptor of the line that ends at p *)
LineDescriptor(s, p) ==
    [ZeroSd EXCEPT !.m_numberOfSamples = 1,
                   !.m_fileOffsetBytes = s.offset,
                   !.m_byteSize = (GetFileOffset([s EXCEPT !.m_pos = p]) + 1) - s.offset]

(* Indexer::BuildFromLines, lines 90-93: the descriptor of an unterminated last line *)
TailDescriptor(s) ==
    [ZeroSd EXCEPT !.m_numberOfSamples = 1,
                   !.m_fileOffsetBytes = s.offset,
                   !.m_byteSize = s.m_fileOffsetEnd - s.offset]

(* Indexer::BuildFromLines, one turn of the loop (66-76, 80-83) or the tail (86-95) *)
BuildFromLines(s) ==
    IF ~s.m_done
    THEN LET p == MemChr(s)
         IN  IF p # NULL
             THEN LET sd == LineDescriptor(s, p)
                  IN  CallAddSequenceIfIncluded(
                          [s EXCEPT !.m_pos = p,
                                    !.offset = sd.m_fileOffsetBytes + sd.m_byteSize],
                          SizeT(s.lines), sd, "BuildFromLinesNext")
             ELSE CallRefillBuffer([s EXCEPT !.m_pos = NULL], "BuildFromLines")
    ELSE IF s.offset < s.m_fileOffsetEnd
         THEN CallAddSequenceIfIncluded(s, SizeT(s.lines), TailDescriptor(s), "idle")
         ELSE Return(s)

(* Indexer::BuildFromLines, lines 77-78 *)
BuildFromLinesNext(s) ==
    [s EXCEPT !.m_pos = @ + 1, !.lines = @ + 1, !.pc = "BuildFromLines"]

(* a bug: a refill in the middle of a key drops the digits read so far *)
TryGetSequenceId_ForgetsOnRefill(s) ==
    IF s.m_done THEN [s EXCEPT !.result = FALSE, !.pc = s.ret]
    ELSE IF s.m_pos = s.m_bufferEnd THEN CallRefillBuffer([s EXCEPT !.id = SizeT(0)], "TryGetSequenceId")
    ELSE LET c == At(s, s.m_pos)
         IN  IF s.m_numericSequenceId
             THEN IF ~IsDigit(c)
                  THEN [s EXCEPT !.result = s.found, !.pc = s.ret]
                  ELSE [s EXCEPT !.id = TimesTenPlus(s.id, c - 48),
                                 !.found = TRUE, !.m_pos = @ + 1]
             ELSE IF IsSpace(c)
                  THEN IF s.found
                       THEN [s EXCEPT !.pc = "MappingTryGet"]
                       ELSE [s EXCEPT !.result = s.found, !.pc = s.ret]
                  ELSE [s EXCEPT !.key = Append(@, c),
                                 !.found = TRUE, !.m_pos = @ + 1]

(* Indexer::TryGetSequenceId, lines 214-251 without the registry calls *)
TryGetSequenceId(s) ==
    IF s.m_done THEN [s EXCEPT !.result = FALSE, !.pc = s.ret]
    ELSE IF s.m_pos = s.m_bufferEnd THEN CallRefillBuffer(s, "TryGetSequenceId")
    ELSE LET c == At(s, s.m_pos)
         IN  IF s.m_numericSequenceId
             THEN IF ~IsDigit(c)
                  THEN [s EXCEPT !.result = s.found, !.pc = s.ret]
                  ELSE [s EXCEPT !.id = TimesTenPlus(s.id, c - 48),
                                 !.found = TRUE, !.m_pos = @ + 1]
             ELSE IF IsSpace(c)
                  THEN IF s.found
                       THEN [s EXCEPT !.pc = "MappingTryGet"]
                       ELSE [s EXCEPT !.result = s.found, !.pc = s.ret]
                  ELSE [s EXCEPT !.key = Append(@, c),
                                 !.found = TRUE, !.m_pos = @ + 1]

(* a bug: the key is added without a look for it in the registry *)
MappingTryGet_AlwaysAdds(s, reg) == [s EXCEPT !.pc = "MappingAddValue"]

(* Indexer::TryGetSequenceId, line 233: mapping.TryGet(key, id) *)
MappingTryGet(s, reg) ==
    IF Contains(reg, s.key)
    THEN [s EXCEPT !.id = SizeT(TryGetId(reg, s.key)), !.result = s.found, !.pc = s.ret]
    ELSE [s EXCEPT !.pc = "MappingAddValue"]

(* Indexer::TryGetSequenceId, line 235: id = mapping.AddValue(key) *)
MappingAddValue(s, reg) ==
    [s EXCEPT !.id = SizeT(AddValue(reg, s.key).id), !.result = s.found, !.pc = s.ret,
              !.addCalls = @ + 1]

(* a bug: Build goes on although no first sequence id was read *)
BuildFirstId_GoesOn(s) ==
    [s EXCEPT !.sd = [ZeroSd EXCEPT !.m_fileOffsetBytes = s.offset],
              !.currentKey = s.id, !.pc = "BuildLoop"]

(* Indexer::Build, lines 133-141 *)
BuildFirstId(s) ==
    IF ~s.result THEN Fatal(s, "Expected a sequence id")
    ELSE [s EXCEPT !.sd = [ZeroSd EXCEPT !.m_fileOffsetBytes = s.offset],
                   !.currentKey = s.id, !.pc = "BuildLoop"]

(* Indexer::Build, the loop test of line 142 and lines 160-162 *)
BuildLoop(s) ==
    IF ~s.m_done THEN [s EXCEPT !.pc = "SkipLine"]
    ELSE CallAddSequenceIfIncluded(
             s, s.currentKey,
             [s.sd EXCEPT !.m_byteSize = s.m_fileOffsetEnd - s.sd.m_fileOffsetBytes],
             "idle")

(* Indexer::SkipLine, one turn of the loop *)
SkipLine(s) ==
    IF s.m_done THEN [s EXCEPT !.pc = "BuildAfterSkip"]
    ELSE LET p == MemChr(s)
         IN  IF p # NULL
             THEN IF p + 1 = s.m_bufferEnd
                  THEN CallRefillBuffer([s EXCEPT !.m_pos = p + 1], "BuildAfterSkip")
                  ELSE [s EXCEPT !.m_pos = p + 1, !.pc = "BuildAfterSkip"]
             ELSE CallRefillBuffer([s EXCEPT !.m_pos = NULL], "SkipLine")

(* Indexer::Build, lines 145-148; w is the value GetFileOffset() yields on nullptr *)
BuildAfterSkip(s, w) ==
    LET o == IF s.m_pos = NULL THEN w ELSE GetFileOffset(s)
        t == [s EXCEPT !.offset = o, !.sd.m_numberOfSamples = @ + 1]
    IN  IF ~s.m_done THEN CallTryGetSequenceId(t, "BuildLoopId")
        ELSE [t EXCEPT !.pc = "BuildLoop"]

(* a bug: every parsed key opens a new sequence *)
BuildLoopId_EveryKey(s) ==
    IF s.result
    THEN CallAddSequenceIfIncluded(
             s, s.currentKey,
             [s.sd EXCEPT !.m_byteSize = s.offset - s.sd.m_fileOffsetBytes],
             "BuildNewSequence")
    ELSE [s EXCEPT !.pc = "BuildLoop"]

(* Indexer::Build, lines 148-152 *)
BuildLoopId(s) ==
    IF s.result /\ s.id # s.currentKey
    THEN CallAddSequenceIfIncluded(
             s, s.currentKey,
             [s.sd EXCEPT !.m_byteSize = s.offset - s.sd.m_fileOffsetBytes],
             "BuildNewSequence")
    ELSE [s EXCEPT !.pc = "BuildLoop"]

(* Indexer::Build, lines 154-156 *)
BuildNewSequence(s) ==
    [s EXCEPT !.sd = [ZeroSd EXCEPT !.m_fileOffsetBytes = s.offset],
              !.currentKey = s.id, !.pc = "BuildLoop"]

(* Indexer::AddSequenceIfIncluded: the string handed to IsIncluded.  The body
   of the function reads sequenceKey where its parameter is named sequenceId;
   the model takes the two for the same value, the key id that Build and
   BuildFromLines pass.  With textual keys the string is looked up in the
   registry, which knows only the ids it assigned: the lookup of any other
   id aborts the call. *)
SequenceKey(s, reg) ==
    IF s.m_numericSequenceId THEN to_string(s.sequenceId)
    ELSE StringOf(reg, s.sequenceId)

(* Indexer::AddSequenceIfIncluded: one entry of the history of computed descriptors *)
Computed(s, key, included) ==
    [m_fileOffsetBytes |-> s.sd.m_fileOffsetBytes, m_byteSize |-> s.sd.m_byteSize,
     m_numberOfSamples |-> s.sd.m_numberOfSamples, sequenceId |-> s.sequenceId,
     key |-> key, included |-> included]

(* a bug: the descriptor is appended whatever the filter says *)
AddSequenceIfIncluded_Unfiltered(s, reg, excl) ==
    IF ~s.m_numericSequenceId /\ ~Known(reg, s.sequenceId)
    THEN Fatal([s EXCEPT !.computed = Append(@, Computed(s, <<>>, FALSE))],
               "Unknown id requested")
    ELSE LET key == SequenceKey(s, reg)
             sd == [s.sd EXCEPT !.m_key = [m_sequence |-> IdOf(reg, key).id, m_sample |-> 0]]
         IN  [s EXCEPT !.computed = Append(@, Computed(s, key, TRUE)),
                       !.pc = s.aret,
                       !.outcome = IF s.aret = "idle" THEN "returned" ELSE @,
                       !.sd = sd, !.m_index = Append(@, sd)]

(* a bug: key.sequence is the id the caller passed, not the registry's id
   of the string the filter saw *)
AddSequenceIfIncluded_RawId(s, reg, excl) ==
    IF ~s.m_numericSequenceId /\ ~Known(reg, s.sequenceId)
    THEN Fatal([s EXCEPT !.computed = Append(@, Computed(s, <<>>, FALSE))],
               "Unknown id requested")
    ELSE LET key == SequenceKey(s, reg)
             inc == IsIncluded(excl, key)
             sd == [s.sd EXCEPT !.m_key = [m_sequence |-> SizeValue(s.sequenceId), m_sample |-> 0]]
             t == [s EXCEPT !.computed = Append(@, Computed(s, key, inc)),
                            !.pc = s.aret,
                            !.outcome = IF s.aret = "idle" THEN "returned" ELSE @]
         IN  IF inc THEN [t EXCEPT !.sd = sd, !.m_index = Append(@, sd)]
             ELSE t

(* Indexer::AddSequenceIfIncluded, then back to the caller *)
AddSequenceIfIncluded(s, reg, excl) ==
    IF ~s.m_numericSequenceId /\ ~Known(reg, s.sequenceId)
    THEN Fatal([s EXCEPT !.computed = Append(@, Computed(s, <<>>, FALSE))],
               "Unknown id requested")
    ELSE LET key == SequenceKey(s, reg)
             inc == IsIncluded(excl, key)
             sd == [s.sd EXCEPT !.m_key = [m_sequence |-> IdOf(reg, key).id, m_sample |-> 0]]
             t == [s EXCEPT !.computed = Append(@, Computed(s, key, inc)),
                            !.pc = s.aret,
                            !.outcome = IF s.aret = "idle" THEN "returned" ELSE @]
         IN  IF inc THEN [t EXCEPT !.sd = sd, !.m_index = Append(@, sd)]
             ELSE t

(* the registry after AddSequenceIfIncluded *)
AddSequenceRegistry(s, reg, excl) ==
    IF ~s.m_numericSequenceId /\ ~Known(reg, s.sequenceId) THEN reg
    ELSE LET key == SequenceKey(s, reg)
         IN  IF IsIncluded(excl, key) THEN IdOf(reg, key).reg ELSE reg

----------------------------------------------------------------------------
(* One step of the Indexer at its position, and the registry after it.     *)

StepIndexer(s, reg, excl, w) ==
    CASE s.pc = "idle" -> BuildEnter(s)
      [] s.pc = "RefillBuffer" -> RefillBuffer(s)
      [] s.pc = "BuildFirstBlock" -> BuildFirstBlock(s)
      [] s.pc = "BuildFromLines" -> BuildFromLines(s)
      [] s.pc = "BuildFromLinesNext" -> BuildFromLinesNext(s)
      [] s.pc = "TryGetSequenceId" -> TryGetSequenceId(s)
      [] s.pc = "MappingTryGet" -> MappingTryGet(s, reg)
      [] s.pc = "MappingAddValue" -> MappingAddValue(s, reg)
      [] s.pc = "BuildFirstId" -> BuildFirstId(s)
      [] s.pc = "BuildLoop" -> BuildLoop(s)
      [] s.pc = "SkipLine" -> SkipLine(s)
      [] s.pc = "BuildAfterSkip" -> BuildAfterSkip(s, w)
      [] s.pc = "BuildLoopId" -> BuildLoopId(s)
      [] s.pc = "BuildNewSequence" -> BuildNewSequence(s)
      [] s.pc = "AddSequenceIfIncluded" -> AddSequenceIfIncluded(s, reg, excl)

StepRegistry(s, reg, excl) ==
    CASE s.pc = "MappingAddValue" -> AddValue(reg, s.key).reg
      [] s.pc = "AddSequenceIfIncluded" -> AddSequenceRegistry(s, reg, excl)
      [] OTHER -> reg

----------------------------------------------------------------------------
(* A whole Build call as a function: the steps of the code, taken from the *)
(* call to the return or the fatal error.  It gives the outcome of the     *)
(* same code on another input (another buffer size, another filter).       *)

RECURSIVE Finish(_, _, _)
Finish(s, reg, excl) ==
    IF s.pc = "idle" THEN [indexer |-> s, registry |-> reg]
    ELSE Finish(StepIndexer(s, reg, excl, Min(WildOffsets)),
                StepRegistry(s, reg, excl), excl)

RunBuild(s, reg, excl) ==
    Finish(StepIndexer(s, reg, excl, 0), StepRegistry(s, reg, excl), excl)

----------------------------------------------------------------------------
(* The state machine.                                                      *)

Configurations ==
    {NewIndexer(f, b, skip, num, px) :
        f \in Files \cup {NoFile}, b \in 1..MaxBuf, skip \in BOOLEAN, num \in BOOLEAN,
        px \in StreamPrefixes}

Init ==
    /\ indexer \in [{1} -> Configurations]
    /\ registry \in Registries
    /\ registry0 = registry
    /\ excluded \in Filters

(* the same indexers on a file whose failAt-th read fails with an I/O error *)
FailingConfigurations ==
    {[c EXCEPT !.failAt = k, !.failDelivers = d] :
        c \in Configurations, k \in 1..MaxFailAt, d \in 0..1}

InitIO ==
    /\ indexer \in [{1} -> FailingConfigurations]
    /\ registry \in Registries
    /\ registry0 = registry
    /\ excluded \in Filters

At_(i, label) == indexer[i].pc = label

Do(i, w) ==
    /\ indexer' = [indexer EXCEPT ![i] = StepIndexer(indexer[i], registry, excluded, w)]
    /\ registry' = StepRegistry(indexer[i], registry, excluded)
    /\ UNCHANGED <<registry0, excluded>>

Build ==
    \E i \in DOMAIN indexer : At_(i, "idle") /\ indexer[i].calls < MaxCalls /\ Do(i, 0)

RefillBufferAction == \E i \in DOMAIN indexer : At_(i, "RefillBuffer") /\ Do(i, 0)

BuildFirstBlockAction == \E i \in DOMAIN indexer : At_(i, "BuildFirstBlock") /\ Do(i, 0)

BuildFromLinesAction == \E i \in DOMAIN indexer : At_(i, "BuildFromLines") /\ Do(i, 0)

BuildFromLinesNextAction ==
    \E i \in DOMAIN indexer : At_(i, "BuildFromLinesNext") /\ Do(i, 0)

TryGetSequenceIdAction ==
    \E i \in DOMAIN indexer : At_(i, "TryGetSequenceId") /\ Do(i, 0)

MappingTryGetAction == \E i \in DOMAIN indexer : At_(i, "MappingTryGet") /\ Do(i, 0)

MappingAddValueAction == \E i \in DOMAIN indexer : At_(i, "MappingAddValue") /\ Do(i, 0)

BuildFirstIdAction == \E i \in DOMAIN indexer : At_(i, "BuildFirstId") /\ Do(i, 0)

BuildLoopAction == \E i \in DOMAIN indexer : At_(i, "BuildLoop") /\ Do(i, 0)

SkipLineAction == \E i \in DOMAIN indexer : At_(i, "SkipLine") /\ Do(i, 0)

BuildAfterSkipAction ==
    \E i \in DOMAIN indexer :
        /\ At_(i, "BuildAfterSkip")
        /\ \E w \in (IF indexer[i].m_pos = NULL THEN WildOffsets ELSE {0}) : Do(i, w)

BuildLoopIdAction == \E i \in DOMAIN indexer : At_(i, "BuildLoopId") /\ Do(i, 0)

BuildNewSequenceAction ==
    \E i \in DOMAIN indexer : At_(i, "BuildNewSequence") /\ Do(i, 0)

AddSequenceIfIncludedAction ==
    \E i \in DOMAIN indexer : At_(i, "AddSequenceIfIncluded") /\ Do(i, 0)

Next ==
    \/ Build
    \/ RefillBufferAction
    \/ BuildFirstBlockAction
    \/ BuildFromLinesAction
    \/ BuildFromLinesNextAction
    \/ TryGetSequenceIdAction
    \/ MappingTryGetAction
    \/ MappingAddValueAction
    \/ BuildFirstIdAction
    \/ BuildLoopAction
    \/ SkipLineAction
    \/ BuildAfterSkipAction
    \/ BuildLoopIdAction
    \/ BuildNewSequenceAction
    \/ AddSequenceIfIncludedAction

Spec == Init /\ [][Next]_vars

(* Two Indexers with textual keys that share the registry and the filter of
   one corpus; their steps interleave. *)
(* a step of the code of a Build call that has been entered *)
Running == \E i \in DOMAIN indexer : indexer[i].pc \notin {"idle", "NoIndexer"}

(* Build is synchronous and single-threaded: once called, its code is run
   step after step until it returns or aborts *)
SpecFair == Init /\ [][Next]_vars /\ WF_vars(Running /\ Next)

(* one indexer and a file with a failing read *)
SpecIO == InitIO /\ [][Next]_vars

SharedFiles == {<<49, 10>>, <<49, 10, 50, 10>>, <<50, 10, 49, 10>>, <<124, 10>>}

SharedConfigurations ==
    {NewIndexer(f, MaxBuf, FALSE, FALSE, px) : f \in SharedFiles, px \in StreamPrefixes}

InitShared ==
    /\ indexer \in [{1, 2} -> SharedConfigurations]
    /\ registry \in Registries
    /\ registry0 = registry
    /\ excluded \in Filters

SpecShared == InitShared /\ [][Next]_vars

----------------------------------------------------------------------------
(* What the claims speak of, computed from the file alone.                 *)

(* the first Build call of Indexer i is over *)
Finished(i) == indexer[i].pc = "idle" /\ indexer[i].calls = 1

(* the first Build call of Indexer i returned *)
Returned(i) == Finished(i) /\ indexer[i].outcome = "returned"

StartsWithBOM(f) == Len(f) >= 3 /\ SubSeq(f, 1, 3) = BOM

(* the offset of the first byte after a leading BOM *)
StartOffset(f) == IF StartsWithBOM(f) THEN 3 ELSE 0

(* the byte of f at the file offset o *)
ByteAt(f, o) == f[o + 1]

(* the descriptors c tile [from, to) in order, each with a positive size *)
Tiles(c, from, to) ==
    /\ \A k \in 1..Len(c) : c[k].m_byteSize > 0
    /\ \A k \in 1..(Len(c) - 1) :
           c[k].m_fileOffsetBytes + c[k].m_byteSize = c[k + 1].m_fileOffsetBytes
    /\ IF from < to
       THEN /\ Len(c) > 0
            /\ c[1].m_fileOffsetBytes = from
            /\ c[Len(c)].m_fileOffsetBytes + c[Len(c)].m_byteSize = to
       ELSE Len(c) = 0

(* the same Indexer as s, freshly constructed with the buffer size b *)
Fresh(s, b) ==
    NewIndexer(s.file, b, s.skipSequenceIds, s.m_numericSequenceId, s.m_streamPrefix)

(* a buffer that holds the whole file *)
WholeFile(f) == IF Len(f) = 0 THEN 1 ELSE Len(f)

(* C1: the byte ranges of the descriptors a returned Build computed tile
   [startOffset, fileSize) in discovery order with positive sizes, where
   startOffset is 3 for a file that begins with the BOM and 0 otherwise *)
C1_RangesTileFile ==
    \A i \in DOMAIN indexer :
        Returned(i) =>
            Tiles(indexer[i].computed, StartOffset(indexer[i].file), Len(indexer[i].file))

(* the tiling from the offset at which the scan did start *)
RangesTileFromScanStart ==
    \A i \in DOMAIN indexer :
        Returned(i) =>
            Tiles(indexer[i].computed, indexer[i].scanStart, Len(indexer[i].file))

(* C2: Build with any buffer size appends the same descriptors and ends with
   the same outcome as Build with a buffer that holds the whole file *)
C2_BufferSizeIndependent ==
    \A i \in DOMAIN indexer :
        Finished(i) =>
            LET s == indexer[i]
                whole == RunBuild(Fresh(s, WholeFile(s.file)), registry0, excluded).indexer
            IN  /\ s.m_index = whole.m_index
                /\ s.outcome = whole.outcome

(* the same, for the files without a BOM *)
BufferSizeIndependentWithoutBOM ==
    \A i \in DOMAIN indexer :
        (Finished(i) /\ ~StartsWithBOM(indexer[i].file)) =>
            LET s == indexer[i]
                whole == RunBuild(Fresh(s, WholeFile(s.file)), registry0, excluded).indexer
            IN  /\ s.m_index = whole.m_index
                /\ s.outcome = whole.outcome
                /\ s.computed = whole.computed

(* the ascending list of the members of a set of integers *)
RECURSIVE Sorted(_)
Sorted(S) == IF S = {} THEN <<>> ELSE <<Min(S)>> \o Sorted(S \ {Min(S)})

(* the offsets in [from, fileSize) at which a line starts *)
LineStarts(f, from) ==
    {o \in from..(Len(f) - 1) : o = from \/ ByteAt(f, o - 1) = ROW_DELIMITER}

KeyChar(num, c) == IF num THEN IsDigit(c) ELSE ~IsSpace(c)

(* the offset of the first byte at or after o that is no key character *)
KeyEnd(f, o, num) ==
    Min({e \in o..Len(f) : e = Len(f) \/ ~KeyChar(num, ByteAt(f, e))})

(* a key stands at o: some key characters, and a byte after them *)
KeyFound(f, o, num) == KeyEnd(f, o, num) > o /\ KeyEnd(f, o, num) < Len(f)

KeyText(f, o, num) == SubSeq(f, o + 1, KeyEnd(f, o, num))

RECURSIVE Decimal(_)
Decimal(text) ==
    IF text = <<>> THEN SizeT(0)
    ELSE TimesTenPlus(Decimal(SubSeq(text, 1, Len(text) - 1)), text[Len(text)] - 48)

SameKey(num, a, b) == IF num THEN Decimal(a) = Decimal(b) ELSE a = b

(* the key of the group that is open when the line at o starts *)
GroupKeyBefore(f, from, o, num) ==
    LET keyed == {l \in LineStarts(f, from) : l < o /\ KeyFound(f, l, num)}
        last == CHOOSE l \in keyed : \A m \in keyed : m <= l
    IN  KeyText(f, last, num)

(* the line starts at which a new sequence opens *)
Boundaries(f, from, num) ==
    {o \in LineStarts(f, from) :
        /\ o > from
        /\ KeyFound(f, o, num)
        /\ ~SameKey(num, KeyText(f, o, num), GroupKeyBefore(f, from, o, num))}

(* the computed descriptors c are the groups that open at the offsets starts *)
IsGrouping(c, f, starts, num) ==
    /\ Len(c) = Len(starts)
    /\ \A k \in 1..Len(c) :
           /\ c[k].m_fileOffsetBytes = starts[k]
           /\ c[k].m_byteSize =
                  (IF k < Len(c) THEN starts[k + 1] ELSE Len(f)) - starts[k]
           /\ IF num THEN c[k].sequenceId = Decimal(KeyText(f, starts[k], num))
              ELSE c[k].key = KeyText(f, starts[k], num)

(* sequence ids are enabled and the first byte after the BOM is not the prefix *)
KeyGroupedMode(s) ==
    /\ ~s.skipSequenceIds
    /\ Len(s.file) > StartOffset(s.file)
    /\ ByteAt(s.file, StartOffset(s.file)) # s.m_streamPrefix

Range(d) == <<d.m_fileOffsetBytes, d.m_byteSize>>

Ranges(c) == [k \in 1..Len(c) |-> Range(c[k])]

(* C3: in key-grouped mode a returned Build opened a sequence at the start of
   the scan and at exactly the line starts where a key is parsed that differs
   from the key of the open group, and closed the last one at the end of the
   file; on "1 x\n1 y\n2 z\n" with numeric keys these are key 1 at [0,8) and
   key 2 at [8,12) *)
C3_BoundaryWhereKeyChanges ==
    \A i \in DOMAIN indexer :
        LET s == indexer[i]
        IN  /\ (KeyGroupedMode(s) /\ Returned(i)) =>
                   /\ s.policy = "keys"
                   /\ IsGrouping(s.computed, s.file,
                                 Sorted({s.scanStart} \cup
                                        Boundaries(s.file, s.scanStart, s.m_numericSequenceId)),
                                 s.m_numericSequenceId)
            /\ (Finished(i) /\ s.file = ExampleKeyed /\ ~s.skipSequenceIds
                    /\ s.m_numericSequenceId) =>
                   /\ s.outcome = "returned"
                   /\ Ranges(s.computed) = <<(<<0, 8>>), (<<8, 4>>)>>
                   /\ s.computed[1].key = <<49>>
                   /\ s.computed[2].key = <<50>>

(* a returned key-grouped Build of "1\n2\n1\n", in which a key recurred
   after another key and opened a third group *)
C3_Witness ==
    \E i \in DOMAIN indexer :
        /\ Returned(i)
        /\ KeyGroupedMode(indexer[i])
        /\ indexer[i].file = <<49, 10, 50, 10, 49, 10>>
        /\ Len(indexer[i].computed) = 3

(* the lines in the byte range [a, b) of f: its delimiters, and one more
   when it ends in a byte that is no delimiter *)
LinesIn(f, a, b) ==
    Cardinality({o \in a..(b - 1) : ByteAt(f, o) = ROW_DELIMITER})
        + (IF b > a /\ ByteAt(f, b - 1) # ROW_DELIMITER THEN 1 ELSE 0)

SamplesCountLines(s) ==
    \A k \in 1..Len(s.computed) :
        LET d == s.computed[k]
        IN  /\ d.m_numberOfSamples >= 1
            /\ d.m_numberOfSamples =
                   LinesIn(s.file, d.m_fileOffsetBytes, d.m_fileOffsetBytes + d.m_byteSize)

(* C4: in key-grouped mode every computed descriptor has numberOfSamples >= 1
   and numberOfSamples equal to the number of lines in its byte range, also
   when the file ends in a fragment in which no key is found *)
C4_SamplesCountLines ==
    \A i \in DOMAIN indexer :
        (Returned(i) /\ indexer[i].policy = "keys") => SamplesCountLines(indexer[i])

(* the file ends in key characters that no other byte follows *)
EndsInsideKey(f, num) ==
    /\ Len(f) > 0
    /\ KeyChar(num, f[Len(f)])
    /\ \E o \in 1..(Len(f) - 1) :
           /\ ByteAt(f, o - 1) = ROW_DELIMITER
           /\ KeyEnd(f, o, num) = Len(f)

(* the count of C4 for the files that do not end inside a key *)
SamplesCountLinesUnlessCutKey ==
    \A i \in DOMAIN indexer :
        (Returned(i) /\ indexer[i].policy = "keys"
            /\ ~EndsInsideKey(indexer[i].file, indexer[i].m_numericSequenceId))
        => SamplesCountLines(indexer[i])

(* the offsets just after a delimiter, and the end of an unterminated last line *)
LineEnds(f, from) ==
    {o + 1 : o \in {x \in from..(Len(f) - 1) : ByteAt(f, x) = ROW_DELIMITER}}
        \cup (IF Len(f) > from /\ f[Len(f)] # ROW_DELIMITER THEN {Len(f)} ELSE {})

(* the computed descriptors c are the lines of f from the offset from on *)
IsLineSplit(c, f, from) ==
    LET ends == Sorted(LineEnds(f, from))
    IN  /\ Len(c) = Len(ends)
        /\ \A k \in 1..Len(c) :
               /\ c[k].m_numberOfSamples = 1
               /\ c[k].m_fileOffsetBytes = (IF k = 1 THEN from ELSE ends[k - 1])
               /\ c[k].m_fileOffsetBytes + c[k].m_byteSize = ends[k]

(* sequence ids are skipped or the first byte after the BOM is the prefix *)
LineMode(s) ==
    \/ s.skipSequenceIds
    \/ /\ Len(s.file) > StartOffset(s.file)
       /\ ByteAt(s.file, StartOffset(s.file)) = s.m_streamPrefix

(* C5: when sequence ids are skipped or the first byte after the BOM is the
   stream prefix, Build runs line mode: one sequence with numberOfSamples 1
   per delimiter, up to and including it, and one more for the bytes after
   the last delimiter when there are any; "a\nbb\nccc" gives the byte sizes
   2, 3, 3.  Builds that the registry lookup of the emitter aborted are left
   aside *)
C5_LineModeSplitsLines ==
    \A i \in DOMAIN indexer :
        LET s == indexer[i]
        IN  (LineMode(s) /\ Finished(i) /\ Len(s.file) > StartOffset(s.file)
                /\ s.outcome # "Unknown id requested")
            => /\ s.outcome = "returned"
               /\ s.policy = "lines"
               /\ IsLineSplit(s.computed, s.file, StartOffset(s.file))
               /\ s.file = ExampleLines =>
                      [k \in 1..Len(s.computed) |-> s.computed[k].m_byteSize] = <<2, 3, 3>>

(* what line mode does, from the offset at which the scan did start *)
LineModeSplitsFromScanStart ==
    \A i \in DOMAIN indexer :
        LET s == indexer[i]
        IN  (Returned(i) /\ s.policy = "lines")
            => IsLineSplit(s.computed, s.file, s.scanStart)

(* offset, size and sample count of a descriptor *)
Shape(d) == <<d.m_fileOffsetBytes, d.m_byteSize, d.m_numberOfSamples>>

Shapes(c) == [k \in 1..Len(c) |-> Shape(c[k])]

(* the computed descriptors of c that were appended and that excl includes *)
IncludedOf(c, excl) ==
    SelectSeq(c, LAMBDA d : d.included /\ IsIncluded(excl, d.key))

(* the descriptors t appended, each with the key string the filter saw *)
SinkEntries(t) ==
    LET keys == IncludedOf(t.computed, {})
    IN  [k \in 1..Len(t.m_index) |->
            [key |-> IF k <= Len(keys) THEN keys[k].key ELSE <<>>, sd |-> t.m_index[k]]]

(* the descriptors t appended whose key excl includes, as the sink holds them *)
SinkEntriesUnder(t, excl) ==
    LET kept == SelectSeq(SinkEntries(t), LAMBDA a : IsIncluded(excl, a.key))
    IN  [k \in 1..Len(kept) |-> kept[k].sd]

(* two lists of descriptors give equal key.sequence to the same pairs of places *)
SameKeyGrouping(c, d) ==
    /\ Len(c) = Len(d)
    /\ \A j, k \in 1..Len(c) :
           (c[j].m_key.m_sequence = c[k].m_key.m_sequence)
               = (d[j].m_key.m_sequence = d[k].m_key.m_sequence)

(* C6 as stated: a sequence that the filter excludes is not appended, and the
   descriptors appended under a filter are exactly, field by field and in
   the same order, the included ones among the descriptors appended under
   the accept-all filter; two filters append a sequence both include with
   the same offset, size and sample count *)
C6_FilterSelectsDescriptors ==
    \A i \in DOMAIN indexer :
        Finished(i) =>
            LET s == indexer[i]
                all == RunBuild(Fresh(s, s.m_bufferSize), registry0, {}).indexer
            IN  /\ Len(all.m_index) = Len(IncludedOf(all.computed, {}))
                /\ s.m_index = SinkEntriesUnder(all, excluded)
                /\ s.outcome = all.outcome
                /\ \A other \in Filters :
                       LET o == RunBuild(Fresh(s, s.m_bufferSize), registry0, other).indexer
                       IN  Shapes(IncludedOf(IncludedOf(s.computed, {}), other))
                               = Shapes(IncludedOf(IncludedOf(o.computed, {}), excluded))

(* C6, amended: a sequence that the filter excludes is not appended, and the
   appended descriptors are, in the same order, the included ones among
   those appended under the accept-all filter: equal in offset, size, sample
   count and key.sample, equal in key.sequence too when keys are textual,
   and with numeric keys equal in which descriptors share a key.sequence
   (the id itself is given when the descriptor is appended, so it depends on
   the keys the filter let through before); two filters append a sequence
   both include with the same offset, size and sample count *)
C6_FilterOnlySelects ==
    \A i \in DOMAIN indexer :
        Finished(i) =>
            LET s == indexer[i]
                all == RunBuild(Fresh(s, s.m_bufferSize), registry0, {}).indexer
                kept == SinkEntriesUnder(all, excluded)
            IN  /\ Len(all.m_index) = Len(IncludedOf(all.computed, {}))
                /\ Shapes(s.m_index) = Shapes(IncludedOf(all.computed, excluded))
                /\ Shapes(s.m_index) = Shapes(kept)
                /\ \A k \in 1..Len(s.m_index) : s.m_index[k].m_key.m_sample = kept[k].m_key.m_sample
                /\ ~s.m_numericSequenceId => s.m_index = kept
                /\ SameKeyGrouping(s.m_index, kept)
                /\ s.outcome = all.outcome
                /\ \A other \in Filters :
                       LET o == RunBuild(Fresh(s, s.m_bufferSize), registry0, other).indexer
                       IN  Shapes(IncludedOf(IncludedOf(s.computed, {}), other))
                               = Shapes(IncludedOf(IncludedOf(o.computed, {}), excluded))

(* a returned Build whose filter excluded a sequence that is followed by an
   included one *)
C6_Witness ==
    \E i \in DOMAIN indexer :
        /\ Returned(i)
        /\ \E k \in 1..(Len(indexer[i].computed) - 1) :
               /\ ~indexer[i].computed[k].included
               /\ indexer[i].computed[k + 1].included
        /\ Len(indexer[i].m_index) >= 1

(* C7: when the file begins with the BOM, Build skips it: the scan starts at
   offset 3, the policy is chosen by the byte at offset 3, and no computed
   byte range holds one of the bytes 0..2 *)
C7_BOMSkipped ==
    \A i \in DOMAIN indexer :
        LET s == indexer[i]
        IN  (StartsWithBOM(s.file) /\ s.calls = 1 /\ s.policy # "none")
            => /\ s.scanStart = 3
               /\ Len(s.file) > 3 =>
                      (s.policy = "lines") =
                          (s.skipSequenceIds \/ ByteAt(s.file, 3) = s.m_streamPrefix)
               /\ \A k \in 1..Len(s.computed) : s.computed[k].m_fileOffsetBytes >= 3

(* the BOM is skipped when the first block holds more than three bytes *)
BOMSkippedWhenFirstBlockLonger ==
    \A i \in DOMAIN indexer :
        LET s == indexer[i]
        IN  (StartsWithBOM(s.file) /\ s.calls = 1 /\ s.policy # "none"
                /\ s.m_bufferSize > 3 /\ Len(s.file) > 3)
            => /\ s.scanStart = 3
               /\ \A k \in 1..Len(s.computed) : s.computed[k].m_fileOffsetBytes >= 3

(* C8: Build on a file that holds the BOM and nothing else aborts with the
   "Input file is empty" error and appends nothing *)
C8_BOMOnlyIsEmpty ==
    \A i \in DOMAIN indexer :
        (Finished(i) /\ indexer[i].file = BOM)
        => /\ indexer[i].outcome = "Input file is empty"
           /\ indexer[i].m_index = <<>>

(* Indexer i holds a key and the id that TryGetSequenceId resolved it to *)
Resolved(i) ==
    /\ ~indexer[i].m_numericSequenceId
    /\ indexer[i].pc \in {"BuildFirstId", "BuildLoopId"}
    /\ indexer[i].result

(* C9: the Indexers that share a registry obtain the same id for the same
   textual key, and the registry never holds two ids for one key *)
C9_OneIdPerKey ==
    /\ \A k, l \in 1..Len(registry) : registry[k] = registry[l] => k = l
    /\ \A i, j \in DOMAIN indexer :
           (Resolved(i) /\ Resolved(j) /\ indexer[i].key = indexer[j].key)
           => indexer[i].id = indexer[j].id

(* the descriptors of the index lie one after the other in the file *)
SinkHoldsEachOnce ==
    \A i \in DOMAIN indexer :
        \A k, l \in 1..Len(indexer[i].m_index) :
            k < l => indexer[i].m_index[k].m_fileOffsetBytes
                         + indexer[i].m_index[k].m_byteSize
                     <= indexer[i].m_index[l].m_fileOffsetBytes

(* C10: a Build call on an Indexer whose index is not empty changes nothing:
   no read, no Reserve, no append, the cursor and the registry as they were;
   so no sequence of the file is in the index twice *)
C10_BuildOnceOnly ==
    [][/\ \A i \in DOMAIN indexer :
              (/\ indexer[i].pc = "idle"
               /\ indexer[i].m_index # <<>>
               /\ indexer'[i] # indexer[i])
              => /\ indexer'[i] = [indexer[i] EXCEPT !.calls = @ + 1, !.outcome = "noop"]
                 /\ registry' = registry
       /\ SinkHoldsEachOnce']_vars

(* a second Build call came back from an index that held sequences *)
C10_Witness ==
    \E i \in DOMAIN indexer :
        /\ indexer[i].pc = "idle"
        /\ indexer[i].calls = 2
        /\ indexer[i].outcome = "noop"
        /\ Len(indexer[i].m_index) >= 2
        /\ indexer[i].freadCalls >= 2
        /\ indexer[i].reserveCalls = 1

(* the computed descriptors that were appended, in order *)
Appended(s) == SelectSeq(s.computed, LAMBDA d : d.included)

(* the k-th descriptor of the index carries the registry id of the string
   that was handed to the filter for it *)
KeyIsFilterKey(s, reg, k) ==
    LET d == s.m_index[k]
        c == Appended(s)[k]
    IN  /\ d.m_key.m_sample = 0
        /\ Shape(d) = Shape(c)
        /\ Contains(reg, c.key)
        /\ d.m_key.m_sequence = TryGetId(reg, c.key)

(* in key-grouped mode the string handed to the filter is the key parsed at
   the first line of the group *)
KeyIsGroupKey(s, k) ==
    LET d == s.m_index[k]
        c == Appended(s)[k]
        text == KeyText(s.file, c.m_fileOffsetBytes, s.m_numericSequenceId)
    IN  IF s.m_numericSequenceId
        THEN c.key = to_string(Decimal(text))
        ELSE c.key = text /\ SizeT(d.m_key.m_sequence) = c.sequenceId

(* C11: every descriptor of the index has key.sample = 0 and key.sequence
   equal to the registry id of the string handed to IsIncluded; in
   key-grouped mode that string is the text parsed from the first line of
   the group (with textual keys, and key.sequence is the id the key resolver
   returned) or the decimal form of the parsed number (with numeric keys) *)
C11_KeyOfDescriptor ==
    \A i \in DOMAIN indexer :
        LET s == indexer[i]
        IN  /\ Len(s.m_index) = Len(Appended(s))
            /\ \A k \in 1..Len(s.m_index) :
                   /\ KeyIsFilterKey(s, registry, k)
                   /\ s.policy = "keys" => KeyIsGroupKey(s, k)

(* a returned key-grouped Build with textual keys appended two descriptors
   to a registry that held another string before *)
C11_Witness ==
    \E i \in DOMAIN indexer :
        /\ Returned(i)
        /\ indexer[i].policy = "keys"
        /\ ~indexer[i].m_numericSequenceId
        /\ registry0 # <<>>
        /\ Len(indexer[i].m_index) >= 2
        /\ indexer[i].m_index[1].m_key.m_sequence # indexer[i].m_index[2].m_key.m_sequence

(* the offset at which the code starts to scan: past the BOM when the test
   of lines 113-114 saw it in the first block *)
FirstBlock(s) == IF Len(s.file) < s.m_bufferSize THEN Len(s.file) ELSE s.m_bufferSize

ScanStartOf(s) == IF StartsWithBOM(s.file) /\ FirstBlock(s) > 3 THEN 3 ELSE 0

(* the first call of Build on indexer i has ended *)
FirstBuildEnded(i) == indexer[i].pc = "idle" /\ indexer[i].calls = 1

(* C12: a first Build aborts fatally when the first refill returns zero bytes and,
   in key-grouped mode, when no key can be read at the start of the first
   line, reporting the offset where the scan started; in both cases nothing
   has been handed to the filter or appended to the index *)
C12_AbortsBeforeAppend ==
    \A i \in DOMAIN indexer :
        LET s == indexer[i]
            nokey == ~KeyFound(s.file, ScanStartOf(s), s.m_numericSequenceId)
        IN  /\ FirstBuildEnded(i) /\ s.file = <<>> => s.outcome = "Input file is empty"
            /\ FirstBuildEnded(i) /\ s.outcome = "Input file is empty" => s.file = <<>>
            /\ FirstBuildEnded(i) /\ s.policy = "keys" /\ nokey
                   => s.outcome = "Expected a sequence id"
            /\ s.calls = 1 /\ s.outcome = "Expected a sequence id"
                   => /\ s.policy = "keys" /\ nokey
                      /\ s.offset = ScanStartOf(s)
                      /\ s.scanStart = ScanStartOf(s)
            /\ s.outcome \in {"Input file is empty", "Expected a sequence id"}
                   => s.m_index = <<>> /\ s.computed = <<>>

(* a key-grouped Build aborted on a file whose first line, past a skipped
   BOM, does not start with a key *)
C12_Witness ==
    \E i \in DOMAIN indexer :
        /\ indexer[i].outcome = "Expected a sequence id"
        /\ indexer[i].offset = 3
        /\ Len(indexer[i].file) > 4

(* C13: when a read of the file failed with an I/O error, Build does not
   return as from a scan that reached end-of-file: the call that met the
   failure, and any later call, ends in a fatal error *)
C13_ReadFailureIsFatal ==
    \A i \in DOMAIN indexer :
        LET s == indexer[i]
        IN  s.readFailed /\ s.pc = "idle" => s.outcome \notin {"returned", "noop"}

(* what the code does instead: a failed read is handled as end-of-file, and
   the fatal error of RefillBuffer is never raised *)
ReadFailureEndsTheFile ==
    \A i \in DOMAIN indexer :
        LET s == indexer[i]
        IN  /\ s.outcome # "Could not read from the input file."
            /\ s.readFailed /\ s.pc \notin {"RefillBuffer"} /\ s.freadCalls > s.failAt
                   => s.m_done

(* TryGetSequenceId has just returned to Build on indexer i *)
KeyReturned(i) == indexer[i].pc \in {"BuildFirstId", "BuildLoopId"}

(* the registry as it was when the running TryGetSequenceId was entered *)
RegistryAtEntry(s) == SubSeq(registry, 1, Len(registry0) + s.addCallsAtEntry)

(* C14: with textual keys TryGetSequenceId returns true exactly when a
   non-empty run of non-whitespace bytes starts at the offset of the call and
   a whitespace byte follows it before the end of the file; then the cursor
   is on that whitespace byte, the key is the whole run (refills in the
   middle of it lose nothing), the registry holds the key, and the id is the
   one the key had at entry or else the one newly added for it; on false the
   registry is as at entry and Build is still running *)
C14_TextualKey ==
    \A i \in DOMAIN indexer :
        LET s == indexer[i]
            o == s.offset
            before == RegistryAtEntry(s)
        IN  KeyReturned(i) /\ ~s.m_numericSequenceId =>
                /\ s.outcome = "running"
                /\ Len(registry) = Len(registry0) + s.addCalls
                /\ s.result = KeyFound(s.file, o, FALSE)
                /\ s.result =>
                       /\ s.m_pos # NULL /\ s.m_pos < s.m_bufferEnd
                       /\ GetFileOffset(s) = KeyEnd(s.file, o, FALSE)
                       /\ IsSpace(At(s, s.m_pos))
                       /\ s.key = KeyText(s.file, o, FALSE)
                       /\ Len(s.key) >= 1
                       /\ Contains(registry, s.key)
                       /\ s.id = SizeT(TryGetId(registry, s.key))
                       /\ IF Contains(before, s.key)
                          THEN s.id = SizeT(TryGetId(before, s.key)) /\ registry = before
                          ELSE s.id = SizeT(Len(before)) /\ registry = Append(before, s.key)
                /\ ~s.result => registry = before

(* a textual key of two bytes, cut by a refill, was found and newly added
   after a key that the registry held before *)
C14_Witness ==
    \E i \in DOMAIN indexer :
        /\ KeyReturned(i)
        /\ ~indexer[i].m_numericSequenceId
        /\ indexer[i].result
        /\ Len(indexer[i].key) = 2
        /\ indexer[i].m_bufferSize = 1
        /\ indexer[i].id = SizeT(Len(registry) - 1)
        /\ indexer[i].addCalls = 1
        /\ registry0 # <<>>

(* C15: with numeric keys TryGetSequenceId returns true exactly when a
   non-empty run of decimal digits starts at the offset of the call and a
   non-digit byte follows it before the end of the file; then the cursor is
   on that non-digit byte and id is the value of the whole run, computed as
   id * 10 + digit from 0 modulo 2^64 (refills in the middle of the run lose
   nothing);
   on false Build is still running; TryGetSequenceId adds nothing to the
   registry *)
C15_NumericKey ==
    \A i \in DOMAIN indexer :
        LET s == indexer[i]
            o == s.offset
        IN  KeyReturned(i) /\ s.m_numericSequenceId =>
                /\ s.outcome = "running"
                /\ s.addCalls = 0
                /\ s.result = KeyFound(s.file, o, TRUE)
                /\ s.result =>
                       /\ s.m_pos # NULL /\ s.m_pos < s.m_bufferEnd
                       /\ GetFileOffset(s) = KeyEnd(s.file, o, TRUE)
                       /\ ~IsDigit(At(s, s.m_pos))
                       /\ s.id = Decimal(KeyText(s.file, o, TRUE))
                /\ ~s.result /\ ~s.m_done =>
                       /\ GetFileOffset(s) = o
                       /\ ~IsDigit(At(s, s.m_pos))

(* a numeric key of twenty digits, cut by every refill, was read: its value
   2^64 + 1 has wrapped around to 1 *)
C15_Witness ==
    \E i \in DOMAIN indexer :
        /\ KeyReturned(i)
        /\ indexer[i].m_numericSequenceId
        /\ indexer[i].result
        /\ Len(KeyText(indexer[i].file, indexer[i].offset, TRUE)) = 20
        /\ indexer[i].id = SizeT(1)
        /\ indexer[i].m_bufferSize = 1

(* the next step of indexer s reads GetFileOffset(): line 130 (and line 65)
   past the BOM skip, line 73 on the delimiter found, line 145 after SkipLine *)
ReadsOffset(s) ==
    \/ s.pc = "BuildFirstBlock" /\ ~s.m_done
    \/ s.pc = "BuildFromLines" /\ ~s.m_done /\ MemChr(s) # NULL
    \/ s.pc = "BuildAfterSkip"

(* the position with which it reads it *)
OffsetReadAt(s) ==
    IF s.pc = "BuildFirstBlock" THEN SkipBOM(s).m_pos
    ELSE IF s.pc = "BuildFromLines" THEN MemChr(s)
    ELSE s.m_pos

(* the bytes of the file before absolute offset o are consumed when o is
   where the window's position p stands *)
OffsetIsPlace(s, p) ==
    LET t == IF s.pc = "BuildFirstBlock" THEN SkipBOM(s) ELSE s
        o == GetFileOffset([t EXCEPT !.m_pos = p])
    IN  /\ t.m_bufferStart <= p /\ p <= t.m_bufferEnd
        /\ o = s.m_fileOffsetEnd - (t.m_bufferEnd - p)
        /\ 0 <= o /\ o <= Len(s.file)
        /\ s.pc = "BuildAfterSkip" => o = Len(s.file) \/ (o > 0 /\ s.file[o] = ROW_DELIMITER)

(* C16: wherever GetFileOffset() is read, the position is inside the buffer
   window or at its end, and the value is the absolute file offset of the
   next byte to consume, also once the file is exhausted *)
C16_OffsetReadInsideWindow ==
    \A i \in DOMAIN indexer :
        LET s == indexer[i]
        IN  ReadsOffset(s) =>
                OffsetReadAt(s) # NULL /\ OffsetIsPlace(s, OffsetReadAt(s))

(* the same, but for the read of line 145 after a SkipLine whose search for
   the delimiter found none in the last buffer *)
OffsetReadInsideWindowUnlessNoMatch ==
    \A i \in DOMAIN indexer :
        LET s == indexer[i]
        IN  ReadsOffset(s) =>
                IF OffsetReadAt(s) = NULL
                THEN s.pc = "BuildAfterSkip" /\ s.m_done
                ELSE OffsetIsPlace(s, OffsetReadAt(s))

(* the count of bytes that a read at the file position of s delivers *)
BytesToRead(s) ==
    IF Len(s.file) - s.filePos < s.m_bufferSize
    THEN Len(s.file) - s.filePos ELSE s.m_bufferSize

(* the end offset is the count of the bytes read so far, and the window
   [m_bufferStart, m_bufferEnd) holds the bytes of the file from the start
   offset to the end offset *)
WindowFacts(s) ==
    /\ s.m_fileOffsetEnd = s.filePos
    /\ s.m_fileOffsetEnd - s.m_fileOffsetStart = s.m_bufferEnd - s.m_bufferStart
    /\ \A k \in 0..(s.m_bufferEnd - s.m_bufferStart - 1) :
           At(s, s.m_bufferStart + k) = s.file[s.m_fileOffsetStart + k + 1]

(* one step of RefillBuffer from s to t *)
RefillFacts(s, t) ==
    LET n == BytesToRead(s)
    IN  IF s.m_done THEN t = [s EXCEPT !.pc = s.rpc]
        ELSE IF n = 0
        THEN t = [s EXCEPT !.pc = s.rpc, !.m_done = TRUE, !.freadCalls = @ + 1,
                           !.fileEof = TRUE]
        ELSE /\ t.m_fileOffsetStart = s.m_fileOffsetEnd
             /\ t.m_fileOffsetEnd = s.m_fileOffsetEnd + n
             /\ t.m_pos = t.m_bufferStart
             /\ t.m_bufferEnd = t.m_bufferStart + n
             /\ t.freadCalls = s.freadCalls + 1
             /\ ~t.m_done
             /\ t.pc = s.rpc

(* C17: a refill that reads n > 0 bytes sets the start offset to the
   previous end offset, advances the end offset by n and puts the position
   at the buffer start; a refill that reads 0 bytes only sets the exhausted
   flag (the stream is then at end-of-file); an exhausted RefillBuffer reads
   nothing and changes nothing; the flag is never cleared; the end offset is
   the count of bytes read so far and end offset - start offset is the count
   of valid bytes of the window, also after the BOM skip *)
C17_RefillFacts ==
    /\ [](\A i \in DOMAIN indexer : WindowFacts(indexer[i]))
    /\ [][\A i \in DOMAIN indexer :
              /\ indexer[i].m_done => indexer'[i].m_done
              /\ indexer[i].pc = "RefillBuffer" /\ indexer'[i] # indexer[i]
                     => RefillFacts(indexer[i], indexer'[i])]_vars

(* a second Build call ran RefillBuffer on an exhausted indexer that had
   skipped a BOM and refilled its buffer with bytes more than once *)
C17_Witness ==
    \E i \in DOMAIN indexer :
        /\ indexer[i].calls = 2
        /\ indexer[i].pc = "BuildFirstBlock"
        /\ indexer[i].m_done
        /\ indexer[i].freadCalls >= 3
        /\ StartsWithBOM(indexer[i].file)
        /\ indexer[i].m_bufferSize = MaxBuf

(* how far indexer s has come: the absolute offset of its position (a null
   position stands after a search through the whole window), the count of
   the bytes read, and the exhausted flag *)
Consumed(s) == IF s.m_pos = NULL THEN s.m_fileOffsetEnd ELSE GetFileOffset(s)

Measure(s) == Consumed(s) + s.filePos + (IF s.m_done THEN 1 ELSE 0)

(* a step of the code from s to t never goes back, and every turn of a loop
   of Build, BuildFromLines, SkipLine and TryGetSequenceId goes through a
   step that consumes a byte, reads a byte or sets the exhausted flag *)
LoopsAdvance(s, t) ==
    /\ Measure(t) >= Measure(s)
    /\ Measure(t) <= 2 * Len(s.file) + 1
    /\ s.pc = "RefillBuffer" /\ ~s.m_done => Measure(t) > Measure(s)
    /\ s.pc = "TryGetSequenceId" /\ t.pc = "TryGetSequenceId" => Consumed(t) > Consumed(s)
    /\ s.pc = "BuildFromLinesNext" => Consumed(t) > Consumed(s)
    /\ s.pc = "SkipLine" /\ ~s.m_done /\ t.pc # "RefillBuffer" => Consumed(t) > Consumed(s)
    /\ s.pc \in {"SkipLine", "BuildFromLines"} /\ t.pc = "RefillBuffer" => ~s.m_done
    /\ s.pc = "TryGetSequenceId" /\ t.pc = "RefillBuffer" => ~s.m_done

(* C18: for every file and every buffer capacity of at least 1, a Build call
   that was entered ends, by a return or a fatal abort: every turn of its
   loops consumes a byte, refills the buffer with at least one byte, or sets
   the exhausted flag *)
C18_BuildTerminates ==
    /\ \A i \in {1} :
           (indexer[i].pc \notin {"idle", "NoIndexer"}) ~> (indexer[i].pc = "idle")
    /\ [][\A i \in DOMAIN indexer :
              indexer[i].pc # "idle" /\ indexer'[i] # indexer[i]
                  => LoopsAdvance(indexer[i], indexer'[i])]_vars

(* a key-grouped Build over a buffer of one byte returned after a refill for
   every byte of the file and appended two sequences *)
C18_Witness ==
    \E i \in DOMAIN indexer :
        /\ Returned(i)
        /\ indexer[i].m_bufferSize = 1
        /\ indexer[i].freadCalls = Len(indexer[i].file) + 1
        /\ indexer[i].policy = "keys"
        /\ Len(indexer[i].m_index) >= 2

(* indexer s is about to look the string of an id up in the registry
   (Indexer.cpp line 181) *)
LooksUpString(s) == s.pc = "AddSequenceIfIncluded" /\ ~s.m_numericSequenceId

(* C19: every id whose string AddSequenceIfIncluded looks up in the registry
   is an id the registry assigned, obtained from the key resolver; the line
   counter of the line-delimited mode is not looked up as an id *)
C19_LookupUsesAssignedId ==
    \A i \in DOMAIN indexer :
        LET s == indexer[i]
        IN  LooksUpString(s) => s.policy = "keys" /\ Known(registry, s.sequenceId)

(* in key-grouped mode the id looked up is one the registry assigned: the
   failure is confined to the line-delimited mode, where the id is the count
   of the lines before *)
LookupUsesAssignedIdInKeyMode ==
    \A i \in DOMAIN indexer :
        LET s == indexer[i]
        IN  LooksUpString(s) =>
                IF s.policy = "keys"
                THEN Known(registry, s.sequenceId)
                ELSE s.sequenceId = SizeT(s.lines) /\ s.lines = Len(s.computed)

(* indexer s is in, or has ended, a Build call that followed a Build which
   returned with nothing in the index *)
AfterEmptyBuild(s) ==
    s.calls >= 2 /\ s.previous = "returned" /\ s.outcome # "noop"

(* C20: a Build call that follows a returned Build which appended nothing
   (the filter excluded every sequence) is not a no-op and scans nothing:
   the exhausted flag is still set, RefillBuffer reads no byte, nothing is
   handed to the filter, and the call aborts with "Input file is empty"
   although the file holds bytes *)
C20_SecondBuildOnEmptyIndex ==
    \A i \in DOMAIN indexer :
        LET s == indexer[i]
        IN  AfterEmptyBuild(s) =>
                /\ s.m_done
                /\ s.m_index = <<>>
                /\ s.computed = <<>>
                /\ s.freadCalls = s.freadCallsAtEntry
                /\ s.filePos = Len(s.file)
                /\ s.reserveCalls = s.calls
                /\ s.pc \in {"RefillBuffer", "BuildFirstBlock", "idle"}
                /\ s.pc = "idle" => s.outcome = "Input file is empty"
                /\ Len(s.file) > 0

(* the second Build on a file of two lines, all of them excluded by the
   filter, aborted *)
C20_Witness ==
    \E i \in DOMAIN indexer :
        /\ AfterEmptyBuild(indexer[i])
        /\ indexer[i].pc = "idle"
        /\ indexer[i].outcome = "Input file is empty"
        /\ indexer[i].policy = "none"
        /\ Len(indexer[i].file) >= 4
        /\ excluded # {}

TypeOK ==
    \A i \in DOMAIN indexer :
        /\ indexer[i].m_done \in BOOLEAN
        /\ indexer[i].m_fileOffsetEnd = indexer[i].filePos

====
